---------------------------- MODULE Spec2Model ----------------------------
(***************************************************************************)
(* Frame loop and swapchain lifecycle of VkBase (src/Core/VK/VkBase.cc).   *)
(*                                                                         *)
(* The program is single threaded.  pc is the position of that thread:     *)
(*   Start, Init_Device, PostInit   before / inside OnInit                 *)
(*   Idle                      between two calls of RenderFrame            *)
(*   RF_Submit                 RenderFrame, after PrepareFrame returned    *)
(*   SF_Present, SF_QueueWaitIdle   inside SubmitFrame                     *)
(*   RW_...                    inside ResizeWindow, one per statement      *)
(*   Destroyed, Fatal, Hung    the thread has stopped                      *)
(* The three operations of the Swapchain class (Create, AcquiredNextImage, *)
(* QueuePresent) are modelled from their written specification.            *)
(***************************************************************************)
EXTENDS Integers, Sequences, FiniteSets, TLC

\* ------------------------------------------------------------------ bounds
MaxImages == 2      \* largest image count a swapchain creation returns
MaxWidth  == 2      \* largest window framebuffer width
MaxHeight == 1      \* largest window framebuffer height
MaxDevices == 2     \* most physical devices the enumeration reports
MaxScore  == 2      \* largest device score, in units of the threshold

\* ------------------------------------------- surface limits (Swapchain)
SurfaceMinExtent == 1
SurfaceMaxExtent == 2

ImageCounts == 1..MaxImages
WinWidths     == 0..MaxWidth
WinHeights    == 0..MaxHeight
ConfigWidths  == 1..MaxWidth
ConfigHeights == 1..MaxHeight

\* ------------------------------------------------------------ VkResult
VK_SUCCESS               == "VK_SUCCESS"
VK_SUBOPTIMAL_KHR        == "VK_SUBOPTIMAL_KHR"
VK_ERROR_OUT_OF_DATE_KHR == "VK_ERROR_OUT_OF_DATE_KHR"
VK_ERROR_DEVICE_LOST     == "VK_ERROR_DEVICE_LOST"

SwapchainResults ==
  {VK_SUCCESS, VK_SUBOPTIMAL_KHR, VK_ERROR_OUT_OF_DATE_KHR, VK_ERROR_DEVICE_LOST}
QueueResults == {VK_SUCCESS, VK_ERROR_DEVICE_LOST}

VARIABLES
  pc,                   \* position of the single thread of control
  ret,                  \* caller ResizeWindow returns to ("none" outside it)
  physicalDevice,       \* local of OnInit: what SelectPhysicalDevice returned
  swapchain,            \* [images, views, extent, live, acquired]
  framebuffers,         \* sequence of handle states
  framebufferInfo,      \* [extent, renderPass] the live framebuffers were made with
  drawCmdBuffers,       \* sequence of handle states
  waitFences,           \* sequence of handle states
  depthStencil,         \* [state, extent]
  renderPass,           \* [handle, state]
  cmdPool,              \* handle state of the command pool
  device,               \* handle state of the logical device
  semaphores,           \* [presentComplete, renderComplete, created]
  submitInfo,           \* the VkSubmitInfo member reused by every frame
  currentBuffer,        \* image index written by the last acquisition
  isFramebufferResized, \* flag set by the window callback
  width, height,        \* locals of ResizeWindow
  queuePending,         \* queue operations issued since the last idle wait
  queueStuck,           \* a batch on the queue waits for a signal nobody gives
  frame,                \* history of this RenderFrame: the acquisition and
                        \* the submission, then only the presentation
  resizeLog,            \* history: steps done by the current/last ResizeWindow
  createArgs,           \* history: size passed to the last swapchain creation
  repeat,               \* history: the creation just made repeats the last one's size
  zeroPolled            \* history: this ResizeWindow polled a zero size (kept up
                        \* to the statement after swapchain.Create)

vars == <<pc, ret, swapchain, framebuffers, framebufferInfo, drawCmdBuffers, waitFences, physicalDevice,
          depthStencil, renderPass, cmdPool, device, semaphores, submitInfo, currentBuffer,
          isFramebufferResized, width, height, queuePending, queueStuck,
          frame, resizeLog, createArgs, repeat, zeroPolled>>

\* ----------------------------------------------------------------- helpers
Min(a, b) == IF a < b THEN a ELSE b
Max(a, b) == IF a > b THEN a ELSE b

IsPrefix(s, t) == Len(s) <= Len(t) /\ SubSeq(t, 1, Len(s)) = s

Handles(n, st) == [i \in 1..n |-> st]

SetAll(seq, st) == [i \in 1..Len(seq) |-> st]

\* The element of seq that follows p.
SuccessorIn(seq, p) ==
  LET i == CHOOSE k \in 1..Len(seq) : seq[k] = p IN seq[i + 1]

NoFrame == [acq |-> "none", submitted |-> FALSE, present |-> "none",
            submitWaitOk |-> TRUE, presentWaitOk |-> TRUE,
            cmdBuffer |-> "none"]

\* -------------------------------------------------------------- Swapchain
\* Create clamps the requested size to the surface limits; the number of
\* images n is the surface's answer, and there is one view per image.  A new
\* swapchain has no image acquired by the application.
ClampExtent(x) == Max(SurfaceMinExtent, Min(x, SurfaceMaxExtent))

\* The image counts a creation at size (w, h) may return after a creation at
\* prevSize that returned prevImages: at an unchanged size the count moves by
\* at most one (rounding of the minimum image count).
SwapchainImageCounts(prevSize, prevImages, w, h) ==
  IF <<w, h>> = prevSize
    THEN {n \in ImageCounts : n - prevImages \in -1..1}
    ELSE ImageCounts

SwapchainCreate(w, h, n) ==
  [images |-> n, views |-> n,
   extent |-> <<ClampExtent(w), ClampExtent(h)>>, live |-> TRUE,
   acquired |-> {}]

\* AcquiredNextImage returning index i: the application holds image i.
SwapchainAcquire(sc, i) == [sc EXCEPT !.acquired = @ \cup {i}]

\* QueuePresent of image i: a presentation that is queued (success or
\* suboptimal) gives the image back to the swapchain.
SwapchainPresent(sc, i, result) ==
  IF result \in {VK_SUCCESS, VK_SUBOPTIMAL_KHR}
    THEN [sc EXCEPT !.acquired = @ \ {i}]
    ELSE sc

\* ------------------------------------------------- resource (re)creation
CreateCommandBuffersKeepSize(sc, cbs) == Handles(Len(cbs), "allocated")
CreateCommandBuffers(sc, cbs) == Handles(sc.images, "allocated")

DestroyCommandBuffers(cbs) == SetAll(cbs, "freed")

CreateFence(cbs) == Handles(Len(cbs), "signaled")

SetupDepthStencil(sc) == [state |-> "live", extent |-> sc.extent]

DestroyDepthStencil(ds) == [state |-> "destroyed", extent |-> <<0, 0>>]

SetupFramebuffersKeepSize(sc, fbs) == Handles(Len(fbs), "live")
SetupFramebuffers(sc, fbs) == Handles(sc.views, "live")

DestroySyncObjects(fences) == SetAll(fences, "destroyed")
DestroyFramebuffers(fbs) == SetAll(fbs, "destroyed")

\* SetupRenderPass: vkCreateRenderPass writes a new handle to renderPass.
SetupRenderPass(rp) == [handle |-> rp.handle + 1, state |-> "live"]

\* SetupFramebuffers, the create-info every framebuffer is created with:
\* width and height of the swapchain extent, the render pass member.
FramebufferExtentSwapped(sc) == <<sc.extent[2], sc.extent[1]>>
FramebufferExtent(sc) == sc.extent

FramebufferRenderPassNull(rp) == 0
FramebufferRenderPass(rp) == rp.handle

FramebufferCreateInfo(sc, rp) ==
  [extent |-> FramebufferExtent(sc), renderPass |-> FramebufferRenderPass(rp)]

NoFramebufferInfo == [extent |-> <<0, 0>>, renderPass |-> 0]

\* ------------------------------------------------------------ submit info
NoSubmitInfo ==
  [pWaitDstStageMask |-> "null", waitSemaphoreCount |-> 0,
   pWaitSemaphores |-> "null", signalSemaphoreCount |-> 0,
   pSignalSemaphores |-> "null", commandBufferCount |-> 0,
   pCommandBuffers |-> "null"]

\* CreateSemaphores, the template of the submissions.
SubmitInfoTemplate ==
  [NoSubmitInfo EXCEPT !.pWaitDstStageMask = "submitPipelineStages",
                       !.waitSemaphoreCount = 1,
                       !.pWaitSemaphores = "presentComplete",
                       !.signalSemaphoreCount = 1,
                       !.pSignalSemaphores = "renderComplete"]

\* RenderFrame, the two members written before vkQueueSubmit; cb is the
\* index of the draw command buffer pointed to.
SubmitInfoForFrameReset(si, cb) ==
  [NoSubmitInfo EXCEPT !.commandBufferCount = 1, !.pCommandBuffers = cb]
SubmitInfoForFrame(si, cb) ==
  [si EXCEPT !.commandBufferCount = 1, !.pCommandBuffers = cb]

\* drawCmdBuffers[i] is an element of the vector.
IndexValid(i, cbs) == i < Len(cbs)

\* &drawCmdBuffers[currentBuffer] in RenderFrame: the handle the submission
\* names. Past the end of the vector the read is undefined: the storage that
\* resize() left behind still holds a handle DestroyCommandBuffers freed, or
\* the read yields anything else.
SubmittedCommandBuffer(i, cbs) ==
  IF IndexValid(i, cbs) THEN {cbs[i + 1]} ELSE {"freed", "garbage"}

\* ------------------------------------------------------------- idle waits
\* vkDeviceWaitIdle / vkQueueWaitIdle: nothing issued before is pending after.
DeviceWaitIdleNoWait(q) == q
DeviceWaitIdle(q) == {}

QueueWaitIdleNoWait(q) == q
QueueWaitIdle(q) == {}

\* ------------------------------------------------------ branch conditions
\* PrepareFrame, the test on the acquisition result.
AcquireNeedsResize(result) ==
  result = VK_ERROR_OUT_OF_DATE_KHR \/ result = VK_SUBOPTIMAL_KHR

\* SubmitFrame, the test on the presentation result and the flag.
PresentNeedsResizeNoFlag(result, resized) ==
  result = VK_ERROR_OUT_OF_DATE_KHR \/ result = VK_SUBOPTIMAL_KHR
PresentNeedsResize(result, resized) ==
  result = VK_ERROR_OUT_OF_DATE_KHR \/ result = VK_SUBOPTIMAL_KHR \/ resized

\* ResizeWindow, the condition of the wait loop.
SizeIsZeroBoth(w, h) == w = 0 /\ h = 0
SizeIsZero(w, h) == w = 0 \/ h = 0

\* ResizeWindow, the statements after the wait loop, in program order.
ResizeSteps ==
  <<"RW_WaitIdle1", "RW_Create", "RW_DestroyDepthStencil",
    "RW_SetupDepthStencil", "RW_DestroyFramebuffers", "RW_SetupFramebuffers",
    "RW_DestroyCommandBuffers", "RW_CreateCommandBuffers",
    "RW_BuildCommandBuffers", "RW_WaitIdle2", "RW_ViewChanged">>

ResizeStepsNoSecondWait ==
  <<"RW_WaitIdle1", "RW_Create", "RW_DestroyDepthStencil",
    "RW_SetupDepthStencil", "RW_DestroyFramebuffers", "RW_SetupFramebuffers",
    "RW_DestroyCommandBuffers", "RW_CreateCommandBuffers",
    "RW_BuildCommandBuffers", "RW_ViewChanged">>

ResizeNextNoSecondWait(p) == SuccessorIn(ResizeStepsNoSecondWait, p)
ResizeNext(p) == SuccessorIn(ResizeSteps, p)

RWStates == {"RW_Poll", "RW_Loop", "RW_WaitEvents"} \cup
            {ResizeSteps[i] : i \in 1..Len(ResizeSteps)}

Terminated == {"Destroyed", "Fatal", "Hung"}

\* The statements of OnDestroy after swapchain.Destroy, in the order of the
\* code, as positions of the thread; "Destroyed" is the return.
DestroySteps ==
  <<"OD_DestroyCommandBuffers", "OD_DestroyRenderPass",
    "OD_DestroyFramebuffers", "OD_DestroyDepthStencil",
    "OD_DestroyCommandPool", "OD_DestroySyncObjects", "OD_DestroyDevice",
    "Destroyed">>

DestroyNext(p) == SuccessorIn(DestroySteps, p)

ODStates == {DestroySteps[i] : i \in 1..Len(DestroySteps)}

\* Where the thread goes when ResizeWindow returns: PrepareFrame returns to
\* RenderFrame, which goes on with the submission; SubmitFrame returns from
\* RenderFrame.
AfterResize(caller) == IF caller = "PrepareFrame" THEN "RF_Submit" ELSE "Idle"

\* ResizeWindow, the arguments of swapchain.Create: the polled size.
CreateSizeSwapped(w, h) == <<h, w>>
CreateSize(w, h) == <<w, h>>

NoRepeat == [same |-> FALSE, extent |-> <<0, 0>>, images |-> 0]

\* ------------------------------------------------- SelectPhysicalDevice
\* Scores are counted in units of the threshold 0.0000001f.
ScoreThreshold == 1

\* What the enumeration and CalcDeviceScore may give: one score per device.
DeviceScores ==
  UNION {[1..k -> 0..MaxScore] : k \in 0..MaxDevices}

\* scores.rbegin()->first: the largest key of the multimap.
BestScore(scores) ==
  CHOOSE m \in {scores[i] : i \in 1..Len(scores)} :
     \A j \in 1..Len(scores) : scores[j] <= m

\* BOOST_ASSERT_MSG(cond, ...) stops the program when cond is false, unless
\* the build defines NDEBUG: then the macro expands to nothing.
AssertStops(ndebug, cond) == ~ndebug /\ ~cond

\* The device SelectPhysicalDevice returns when no assertion stopped it.
\* With no device scores.rbegin() is the end of an empty multimap and the
\* value read through it is arbitrary.
SelectedDevice(scores) ==
  IF Len(scores) = 0 THEN "garbage"
  ELSE IF BestScore(scores) >= ScoreThreshold THEN "suitable"
  ELSE "unsuitable"

\* ------------------------------------------------------------------- Init
Init ==
  /\ pc = "Start"
  /\ ret = "none"
  /\ physicalDevice = "none"
  /\ swapchain = [images |-> 0, views |-> 0, extent |-> <<0, 0>>,
                  live |-> FALSE, acquired |-> {}]
  /\ framebuffers = <<>>
  /\ framebufferInfo = NoFramebufferInfo
  /\ drawCmdBuffers = <<>>
  /\ waitFences = <<>>
  /\ depthStencil = [state |-> "null", extent |-> <<0, 0>>]
  /\ renderPass = [handle |-> 0, state |-> "null"]
  /\ cmdPool = "null"
  /\ device = "null"
  /\ semaphores = [presentComplete |-> "null", renderComplete |-> "null",
                   created |-> 0]
  /\ submitInfo = NoSubmitInfo
  /\ currentBuffer = 0
  /\ isFramebufferResized = FALSE
  /\ width = 0
  /\ height = 0
  /\ queuePending = {}
  /\ queueStuck = FALSE
  /\ frame = NoFrame
  /\ resizeLog = <<>>
  /\ createArgs = <<0, 0>>
  /\ repeat = NoRepeat
  /\ zeroPolled = FALSE

\* ----------------------------------------------------------------- OnInit
\* CreateInstance, then SelectPhysicalDevice: the enumeration, the scores and
\* the two assertions.
SelectPhysicalDevice ==
  /\ pc = "Start"
  /\ \E ndebug \in BOOLEAN, scores \in DeviceScores :
       IF \/ AssertStops(ndebug, Len(scores) # 0)
          \/ /\ Len(scores) # 0
             /\ AssertStops(ndebug, BestScore(scores) >= ScoreThreshold)
         THEN /\ pc' = "Fatal"
              /\ UNCHANGED physicalDevice
         ELSE /\ pc' = "Init_Device"
              /\ physicalDevice' = SelectedDevice(scores)
  /\ UNCHANGED <<ret, swapchain, framebuffers, framebufferInfo,
                 drawCmdBuffers, waitFences, depthStencil, renderPass,
                 cmdPool, device,
                 semaphores, submitInfo, currentBuffer, isFramebufferResized, width,
                 height, queuePending, queueStuck, frame, resizeLog,
                 createArgs, repeat, zeroPolled>>

\* The rest of OnInit: swapchain.Init, device.Init, CreateLogicalDevice (a
\* status other than success is fatal), the queue, then CreateSemaphores.
OnInit ==
  /\ pc = "Init_Device"
  /\ \E result \in QueueResults :
       IF result = VK_SUCCESS
         THEN /\ semaphores' = [presentComplete |-> "unsignaled",
                                renderComplete |-> "unsignaled",
                                created |-> semaphores.created + 2]
              /\ submitInfo' = SubmitInfoTemplate
              /\ device' = "live"
              /\ pc' = "PostInit"
         ELSE /\ pc' = "Fatal"
              /\ UNCHANGED <<semaphores, submitInfo, device>>
  /\ physicalDevice' = "none"
  /\ UNCHANGED <<ret, swapchain, framebuffers, framebufferInfo, drawCmdBuffers, waitFences,
                 depthStencil, renderPass, cmdPool, currentBuffer,
                 isFramebufferResized, width, height, queuePending,
                 queueStuck, frame, resizeLog, createArgs, repeat,
                 zeroPolled>>

OnPostInit ==
  /\ pc = "PostInit"
  /\ \E w \in ConfigWidths, h \in ConfigHeights, n \in ImageCounts :
       LET sc  == SwapchainCreate(w, h, n)
           cbs == CreateCommandBuffers(sc, drawCmdBuffers)
       IN /\ swapchain' = sc
          /\ cmdPool' = "live"
          /\ drawCmdBuffers' = cbs
          /\ waitFences' = CreateFence(cbs)
          /\ depthStencil' = SetupDepthStencil(sc)
          /\ renderPass' = SetupRenderPass(renderPass)
          /\ framebuffers' = SetupFramebuffers(sc, framebuffers)
          /\ framebufferInfo' = FramebufferCreateInfo(sc, renderPass')
          /\ createArgs' = <<w, h>>
  /\ pc' = "Idle"
  /\ UNCHANGED <<ret, semaphores, submitInfo, currentBuffer, isFramebufferResized, width,
                 height, queuePending, queueStuck, frame, resizeLog,
                 zeroPolled, repeat, physicalDevice, device>>

\* -------------------------------------------------------------- callbacks
\* The window callback runs while the thread processes window events:
\* between frames and inside glfwWaitEvents.
OnResized ==
  /\ pc \in {"Idle", "RW_WaitEvents"}
  /\ isFramebufferResized' = TRUE
  /\ UNCHANGED <<pc, ret, swapchain, framebuffers, framebufferInfo, drawCmdBuffers, waitFences, physicalDevice,
                 depthStencil, renderPass, cmdPool, device, semaphores, submitInfo, currentBuffer, width,
                 height, queuePending, queueStuck, frame, resizeLog,
                 createArgs, repeat, zeroPolled>>

WaitIdle ==
  /\ pc = "Idle"
  /\ queuePending' = DeviceWaitIdle(queuePending)
  /\ UNCHANGED <<pc, ret, swapchain, framebuffers, framebufferInfo, drawCmdBuffers, waitFences, physicalDevice,
                 depthStencil, renderPass, cmdPool, device, semaphores, submitInfo, currentBuffer,
                 isFramebufferResized, width, height, queueStuck, frame,
                 resizeLog, createArgs, repeat, zeroPolled>>

OnDestroy ==
  /\ pc = "Idle"
  /\ swapchain' = [swapchain EXCEPT !.live = FALSE]
  /\ pc' = Head(DestroySteps)
  /\ UNCHANGED <<ret, framebuffers, framebufferInfo, drawCmdBuffers,
                 waitFences, physicalDevice, depthStencil, renderPass,
                 cmdPool, device, semaphores, submitInfo, currentBuffer,
                 isFramebufferResized, width, height, queuePending,
                 queueStuck, frame, resizeLog, createArgs, repeat,
                 zeroPolled>>

DestroyStep(p) ==
  /\ pc = p
  /\ pc' = DestroyNext(p)

OnDestroyCommandBuffers ==
  /\ DestroyStep("OD_DestroyCommandBuffers")
  /\ drawCmdBuffers' = DestroyCommandBuffers(drawCmdBuffers)
  /\ UNCHANGED <<ret, swapchain, framebuffers, framebufferInfo, waitFences,
                 physicalDevice, depthStencil, renderPass, cmdPool, device,
                 semaphores, submitInfo, currentBuffer, isFramebufferResized,
                 width, height, queuePending, queueStuck, frame, resizeLog,
                 createArgs, repeat, zeroPolled>>

OnDestroyRenderPass ==
  /\ DestroyStep("OD_DestroyRenderPass")
  /\ renderPass' = [renderPass EXCEPT !.state = "destroyed"]
  /\ UNCHANGED <<ret, swapchain, framebuffers, framebufferInfo,
                 drawCmdBuffers, waitFences, physicalDevice, depthStencil,
                 cmdPool, device, semaphores, submitInfo, currentBuffer,
                 isFramebufferResized, width, height, queuePending,
                 queueStuck, frame, resizeLog, createArgs, repeat,
                 zeroPolled>>

OnDestroyFramebuffers ==
  /\ DestroyStep("OD_DestroyFramebuffers")
  /\ framebuffers' = DestroyFramebuffers(framebuffers)
  /\ framebufferInfo' = NoFramebufferInfo
  /\ UNCHANGED <<ret, swapchain, drawCmdBuffers, waitFences, physicalDevice,
                 depthStencil, renderPass, cmdPool, device, semaphores,
                 submitInfo, currentBuffer, isFramebufferResized, width,
                 height, queuePending, queueStuck, frame, resizeLog,
                 createArgs, repeat, zeroPolled>>

OnDestroyDepthStencil ==
  /\ DestroyStep("OD_DestroyDepthStencil")
  /\ depthStencil' = DestroyDepthStencil(depthStencil)
  /\ UNCHANGED <<ret, swapchain, framebuffers, framebufferInfo,
                 drawCmdBuffers, waitFences, physicalDevice, renderPass,
                 cmdPool, device, semaphores, submitInfo, currentBuffer,
                 isFramebufferResized, width, height, queuePending,
                 queueStuck, frame, resizeLog, createArgs, repeat,
                 zeroPolled>>

OnDestroyCommandPool ==
  /\ DestroyStep("OD_DestroyCommandPool")
  /\ cmdPool' = "destroyed"
  /\ UNCHANGED <<ret, swapchain, framebuffers, framebufferInfo,
                 drawCmdBuffers, waitFences, physicalDevice, depthStencil,
                 renderPass, device, semaphores, submitInfo, currentBuffer,
                 isFramebufferResized, width, height, queuePending,
                 queueStuck, frame, resizeLog, createArgs, repeat,
                 zeroPolled>>

OnDestroySyncObjects ==
  /\ DestroyStep("OD_DestroySyncObjects")
  /\ waitFences' = DestroySyncObjects(waitFences)
  /\ semaphores' = [semaphores EXCEPT !.presentComplete = "destroyed",
                                      !.renderComplete = "destroyed"]
  /\ UNCHANGED <<ret, swapchain, framebuffers, framebufferInfo,
                 drawCmdBuffers, physicalDevice, depthStencil, renderPass,
                 cmdPool, device, submitInfo, currentBuffer,
                 isFramebufferResized, width, height, queuePending,
                 queueStuck, frame, resizeLog, createArgs, repeat,
                 zeroPolled>>

OnDestroyDevice ==
  /\ DestroyStep("OD_DestroyDevice")
  /\ device' = "destroyed"
  /\ UNCHANGED <<ret, swapchain, framebuffers, framebufferInfo,
                 drawCmdBuffers, waitFences, physicalDevice, depthStencil,
                 renderPass, cmdPool, semaphores, submitInfo, currentBuffer,
                 isFramebufferResized, width, height, queuePending,
                 queueStuck, frame, resizeLog, createArgs, repeat,
                 zeroPolled>>

\* ------------------------------------------------------------ RenderFrame
\* Entry of ResizeWindow from caller c.
EnterResize(c) ==
  /\ pc' = "RW_Poll"
  /\ ret' = c
  /\ resizeLog' = <<>>
  /\ zeroPolled' = FALSE

\* PrepareFrame: the acquisition and the branch on its result.
PrepareFrame ==
  /\ pc = "Idle"
  /\ \E result \in SwapchainResults :
       /\ IF result \in {VK_SUCCESS, VK_SUBOPTIMAL_KHR}
            THEN /\ \E i \in 0..(swapchain.images - 1) :
                      /\ currentBuffer' = i
                      /\ swapchain' = SwapchainAcquire(swapchain, i)
                 /\ semaphores' =
                      [semaphores EXCEPT !.presentComplete = "signaled"]
            ELSE UNCHANGED <<currentBuffer, semaphores, swapchain>>
       /\ IF AcquireNeedsResize(result)
            THEN /\ EnterResize("PrepareFrame")
                 /\ frame' = [NoFrame EXCEPT !.acq = result]
            ELSE /\ pc' = IF result = VK_SUCCESS THEN "RF_Submit" ELSE "Fatal"
                 /\ frame' = [NoFrame EXCEPT !.acq = result]
                 /\ UNCHANGED <<ret, resizeLog, zeroPolled>>
  /\ UNCHANGED <<submitInfo, framebuffers, framebufferInfo, drawCmdBuffers, waitFences, physicalDevice,
                 depthStencil, renderPass, cmdPool, device, isFramebufferResized, width,
                 height, queuePending, queueStuck, createArgs, repeat>>

\* RenderFrame after PrepareFrame: vkQueueSubmit with the submit-info
\* template (wait presentComplete, signal renderComplete).  A wait on a
\* semaphore without a pending signal is invalid use: the batch may run
\* anyway or block the queue for ever.  So is a command buffer read past the
\* end of drawCmdBuffers.
Submit ==
  /\ pc = "RF_Submit"
  /\ submitInfo' = SubmitInfoForFrame(submitInfo, currentBuffer)
  /\ \E result \in QueueResults :
       IF result = VK_SUCCESS
         THEN LET ok == semaphores.presentComplete = "signaled"
                  valid == IndexValid(currentBuffer, drawCmdBuffers)
              IN
              /\ semaphores' = [semaphores EXCEPT
                                  !.presentComplete = "unsignaled",
                                  !.renderComplete = "signaled"]
              /\ queuePending' = queuePending \cup {"submit"}
              /\ \E stuck \in (IF ok /\ valid THEN {FALSE} ELSE BOOLEAN) :
                   queueStuck' = (queueStuck \/ stuck)
              /\ \E cb \in SubmittedCommandBuffer(currentBuffer, drawCmdBuffers) :
                   frame' = [frame EXCEPT !.submitted = TRUE,
                                          !.submitWaitOk = ok,
                                          !.cmdBuffer = cb]
              /\ pc' = "SF_Present"
         ELSE /\ pc' = "Fatal"
              /\ UNCHANGED <<semaphores, queuePending, queueStuck, frame>>
  /\ UNCHANGED <<ret, swapchain, framebuffers, framebufferInfo, drawCmdBuffers, waitFences, physicalDevice,
                 depthStencil, renderPass, cmdPool, device, currentBuffer,
                 isFramebufferResized, width, height, resizeLog, createArgs, repeat, zeroPolled>>

\* SubmitFrame: the presentation and the branch on its result and the flag.
SubmitFrame ==
  /\ pc = "SF_Present"
  /\ \E result \in SwapchainResults :
       /\ semaphores' = [semaphores EXCEPT !.renderComplete = "unsignaled"]
       /\ queuePending' = IF result \in {VK_SUCCESS, VK_SUBOPTIMAL_KHR}
                            THEN queuePending \cup {"present"}
                            ELSE queuePending
       /\ frame' = [NoFrame EXCEPT
                      !.present = result,
                      !.presentWaitOk =
                         (semaphores.renderComplete = "signaled")]
       /\ swapchain' = SwapchainPresent(swapchain, currentBuffer, result)
       /\ IF PresentNeedsResize(result, isFramebufferResized)
            THEN /\ isFramebufferResized' = FALSE
                 /\ EnterResize("SubmitFrame")
            ELSE /\ pc' = IF result = VK_SUCCESS THEN "SF_QueueWaitIdle"
                                                 ELSE "Fatal"
                 /\ UNCHANGED <<isFramebufferResized, ret, resizeLog,
                                zeroPolled>>
  /\ UNCHANGED <<submitInfo, framebuffers, framebufferInfo, drawCmdBuffers, waitFences, physicalDevice,
                 depthStencil, renderPass, cmdPool, device, currentBuffer, width, height,
                 queueStuck, createArgs, repeat>>

\* SubmitFrame, last statement: vkQueueWaitIdle, then RenderFrame returns.
SubmitFrameWaitIdle ==
  /\ pc = "SF_QueueWaitIdle"
  /\ IF queueStuck
       THEN /\ pc' \in {"Hung", "Fatal"}
            /\ UNCHANGED queuePending
       ELSE \E result \in QueueResults :
              IF result = VK_SUCCESS
                THEN /\ queuePending' = QueueWaitIdle(queuePending)
                     /\ pc' = "Idle"
                ELSE /\ pc' = "Fatal"
                     /\ UNCHANGED queuePending
  /\ UNCHANGED <<ret, swapchain, framebuffers, framebufferInfo, drawCmdBuffers, waitFences, physicalDevice,
                 depthStencil, renderPass, cmdPool, device, semaphores, submitInfo, currentBuffer,
                 isFramebufferResized, width, height, queueStuck, frame,
                 resizeLog, createArgs, repeat, zeroPolled>>

\* ----------------------------------------------------------- ResizeWindow
\* First glfwGetFramebufferSize.
ResizeWindowPoll ==
  /\ pc = "RW_Poll"
  /\ \E w \in WinWidths, h \in WinHeights : width' = w /\ height' = h
  /\ zeroPolled' = (width' = 0 \/ height' = 0)
  /\ pc' = "RW_Loop"
  /\ UNCHANGED <<ret, swapchain, framebuffers, framebufferInfo, drawCmdBuffers, waitFences, physicalDevice,
                 depthStencil, renderPass, cmdPool, device, semaphores, submitInfo, currentBuffer,
                 isFramebufferResized, queuePending, queueStuck, frame,
                 resizeLog, createArgs, repeat>>

\* Loop body, first statement: the size is polled again and reads (w, h).
ResizeWindowLoopPoll(w, h) ==
  /\ pc = "RW_Loop"
  /\ SizeIsZero(width, height)
  /\ width' = w
  /\ height' = h
  /\ zeroPolled' = TRUE
  /\ pc' = "RW_WaitEvents"
  /\ UNCHANGED <<ret, swapchain, framebuffers, framebufferInfo, drawCmdBuffers, waitFences, physicalDevice,
                 depthStencil, renderPass, cmdPool, device, semaphores, submitInfo, currentBuffer,
                 isFramebufferResized, queuePending, queueStuck, frame,
                 resizeLog, createArgs, repeat>>

ResizeWindowLoopPollZero ==
  \E w \in WinWidths, h \in WinHeights :
     (w = 0 \/ h = 0) /\ ResizeWindowLoopPoll(w, h)

ResizeWindowLoopPollNonZero ==
  \E w \in WinWidths, h \in WinHeights :
     (w # 0 /\ h # 0) /\ ResizeWindowLoopPoll(w, h)

\* Loop body, second statement: glfwWaitEvents returns.
ResizeWindowWaitEvents ==
  /\ pc = "RW_WaitEvents"
  /\ pc' = "RW_Loop"
  /\ UNCHANGED <<ret, swapchain, framebuffers, framebufferInfo, drawCmdBuffers, waitFences, physicalDevice,
                 depthStencil, renderPass, cmdPool, device, semaphores, submitInfo, currentBuffer,
                 isFramebufferResized, width, height, queuePending,
                 queueStuck, frame, resizeLog, createArgs, repeat,
                 zeroPolled>>

\* The loop condition is false: go on with the first statement after it.
ResizeWindowLoopExit ==
  /\ pc = "RW_Loop"
  /\ ~SizeIsZero(width, height)
  /\ pc' = ResizeSteps[1]
  /\ UNCHANGED <<ret, swapchain, framebuffers, framebufferInfo, drawCmdBuffers, waitFences, physicalDevice,
                 depthStencil, renderPass, cmdPool, device, semaphores, submitInfo, currentBuffer,
                 isFramebufferResized, width, height, queuePending,
                 queueStuck, frame, resizeLog, createArgs, repeat,
                 zeroPolled>>

\* One statement of ResizeWindow at position p: logged as name, then on to
\* the next statement.
ResizeStep(p, name) ==
  /\ pc = p
  /\ resizeLog' = Append(resizeLog, name)
  /\ pc' = ResizeNext(p)

\* vkDeviceWaitIdle at position p.  On a blocked queue it never returns, or
\* the device is lost and the recreation that follows fails.
ResizeDeviceWaitIdle(p) ==
  /\ pc = p
  /\ IF queueStuck
       THEN /\ pc' \in {"Hung", "Fatal"}
            /\ UNCHANGED <<queuePending, resizeLog>>
       ELSE /\ queuePending' = DeviceWaitIdle(queuePending)
            /\ resizeLog' = Append(resizeLog, "vkDeviceWaitIdle")
            /\ pc' = ResizeNext(p)
  /\ UNCHANGED <<ret, swapchain, framebuffers, framebufferInfo, drawCmdBuffers, waitFences, physicalDevice,
                 depthStencil, renderPass, cmdPool, device, semaphores, submitInfo, currentBuffer,
                 isFramebufferResized, width, height, queueStuck, frame,
                 createArgs, repeat, zeroPolled>>

ResizeWindowWaitIdle1 == ResizeDeviceWaitIdle("RW_WaitIdle1")

ResizeWindowCreate ==
  /\ ResizeStep("RW_Create", "swapchain.Create")
  /\ LET size == CreateSize(width, height) IN
       /\ \E n \in SwapchainImageCounts(createArgs, swapchain.images,
                                         size[1], size[2]) :
            swapchain' = SwapchainCreate(size[1], size[2], n)
       /\ createArgs' = size
  /\ repeat' = IF <<width, height>> = createArgs
                 THEN [same |-> TRUE, extent |-> swapchain.extent,
                       images |-> swapchain.images]
                 ELSE NoRepeat
  /\ UNCHANGED <<ret, framebuffers, framebufferInfo, drawCmdBuffers, waitFences, physicalDevice, depthStencil,
                 renderPass, cmdPool, device, semaphores, submitInfo, currentBuffer, isFramebufferResized,
                 width, height, queuePending, queueStuck, frame, zeroPolled>>

ResizeWindowDestroyDepthStencil ==
  /\ ResizeStep("RW_DestroyDepthStencil", "DestroyDepthStencil")
  /\ depthStencil' = DestroyDepthStencil(depthStencil)
  /\ zeroPolled' = FALSE
  /\ repeat' = NoRepeat
  /\ UNCHANGED <<ret, swapchain, framebuffers, framebufferInfo, drawCmdBuffers, waitFences, physicalDevice,
                 renderPass, cmdPool, device, semaphores, submitInfo, currentBuffer, isFramebufferResized,
                 width, height, queuePending, queueStuck, frame, createArgs>>

ResizeWindowSetupDepthStencil ==
  /\ ResizeStep("RW_SetupDepthStencil", "SetupDepthStencil")
  /\ depthStencil' = SetupDepthStencil(swapchain)
  /\ UNCHANGED <<ret, swapchain, framebuffers, framebufferInfo, drawCmdBuffers, waitFences, physicalDevice,
                 renderPass, cmdPool, device, semaphores, submitInfo, currentBuffer, isFramebufferResized,
                 width, height, queuePending, queueStuck, frame, createArgs, repeat, zeroPolled>>

ResizeWindowDestroyFramebuffers ==
  /\ ResizeStep("RW_DestroyFramebuffers", "vkDestroyFramebuffer")
  /\ framebuffers' = DestroyFramebuffers(framebuffers)
  /\ framebufferInfo' = NoFramebufferInfo
  /\ UNCHANGED <<ret, swapchain, drawCmdBuffers, waitFences, physicalDevice, depthStencil,
                 renderPass, cmdPool, device, semaphores, submitInfo, currentBuffer, isFramebufferResized,
                 width, height, queuePending, queueStuck, frame, createArgs, repeat, zeroPolled>>

ResizeWindowSetupFramebuffers ==
  /\ ResizeStep("RW_SetupFramebuffers", "SetupFramebuffers")
  /\ framebuffers' = SetupFramebuffers(swapchain, framebuffers)
  /\ framebufferInfo' = FramebufferCreateInfo(swapchain, renderPass)
  /\ UNCHANGED <<ret, swapchain, drawCmdBuffers, waitFences, physicalDevice, depthStencil,
                 renderPass, cmdPool, device, semaphores, submitInfo, currentBuffer, isFramebufferResized,
                 width, height, queuePending, queueStuck, frame, createArgs, repeat, zeroPolled>>

ResizeWindowDestroyCommandBuffers ==
  /\ ResizeStep("RW_DestroyCommandBuffers", "DestroyCommandBuffers")
  /\ drawCmdBuffers' = DestroyCommandBuffers(drawCmdBuffers)
  /\ UNCHANGED <<ret, swapchain, framebuffers, framebufferInfo, waitFences, physicalDevice, depthStencil,
                 renderPass, cmdPool, device, semaphores, submitInfo, currentBuffer, isFramebufferResized,
                 width, height, queuePending, queueStuck, frame, createArgs, repeat, zeroPolled>>

ResizeWindowCreateCommandBuffers ==
  /\ ResizeStep("RW_CreateCommandBuffers", "CreateCommandBuffers")
  /\ drawCmdBuffers' = CreateCommandBuffers(swapchain, drawCmdBuffers)
  /\ UNCHANGED <<ret, swapchain, framebuffers, framebufferInfo, waitFences, physicalDevice, depthStencil,
                 renderPass, cmdPool, device, semaphores, submitInfo, currentBuffer, isFramebufferResized,
                 width, height, queuePending, queueStuck, frame, createArgs, repeat, zeroPolled>>

\* VkBase::BuildCommandBuffers is empty; a subclass records here.
ResizeWindowBuildCommandBuffers ==
  /\ ResizeStep("RW_BuildCommandBuffers", "BuildCommandBuffers")
  /\ UNCHANGED <<ret, swapchain, framebuffers, framebufferInfo, drawCmdBuffers, waitFences, physicalDevice,
                 depthStencil, renderPass, cmdPool, device, semaphores, submitInfo, currentBuffer,
                 isFramebufferResized, width, height, queuePending,
                 queueStuck, frame, createArgs, repeat, zeroPolled>>

ResizeWindowWaitIdle2 == ResizeDeviceWaitIdle("RW_WaitIdle2")

\* The hook, then ResizeWindow returns to its caller.
ResizeWindowViewChanged ==
  /\ pc = "RW_ViewChanged"
  /\ resizeLog' = Append(resizeLog, "ViewChanged")
  /\ pc' = AfterResize(ret)
  /\ ret' = "none"
  /\ width' = 0
  /\ height' = 0
  /\ UNCHANGED <<createArgs, repeat, zeroPolled, swapchain, framebuffers, framebufferInfo, drawCmdBuffers, waitFences, physicalDevice,
                 depthStencil, renderPass, cmdPool, device, semaphores, submitInfo, currentBuffer,
                 isFramebufferResized, queuePending, queueStuck, frame>>

\* ------------------------------------------------------------------- Next
Next ==
  \/ SelectPhysicalDevice
  \/ OnInit
  \/ OnPostInit
  \/ OnResized
  \/ WaitIdle
  \/ OnDestroy
  \/ OnDestroyCommandBuffers
  \/ OnDestroyRenderPass
  \/ OnDestroyFramebuffers
  \/ OnDestroyDepthStencil
  \/ OnDestroyCommandPool
  \/ OnDestroySyncObjects
  \/ OnDestroyDevice
  \/ PrepareFrame
  \/ Submit
  \/ SubmitFrame
  \/ SubmitFrameWaitIdle
  \/ ResizeWindowPoll
  \/ ResizeWindowLoopPollZero
  \/ ResizeWindowLoopPollNonZero
  \/ ResizeWindowWaitEvents
  \/ ResizeWindowLoopExit
  \/ ResizeWindowWaitIdle1
  \/ ResizeWindowCreate
  \/ ResizeWindowDestroyDepthStencil
  \/ ResizeWindowSetupDepthStencil
  \/ ResizeWindowDestroyFramebuffers
  \/ ResizeWindowSetupFramebuffers
  \/ ResizeWindowDestroyCommandBuffers
  \/ ResizeWindowCreateCommandBuffers
  \/ ResizeWindowBuildCommandBuffers
  \/ ResizeWindowWaitIdle2
  \/ ResizeWindowViewChanged

Spec == Init /\ [][Next]_vars

\* The thread runs as long as it can, and the window does not report a zero
\* size for ever.
ProgramStep ==
  \/ SelectPhysicalDevice \/ OnInit \/ OnPostInit \/ PrepareFrame \/ Submit \/ SubmitFrame
  \/ SubmitFrameWaitIdle \/ ResizeWindowPoll \/ ResizeWindowWaitEvents
  \/ ResizeWindowLoopExit \/ ResizeWindowWaitIdle1 \/ ResizeWindowCreate
  \/ ResizeWindowDestroyDepthStencil \/ ResizeWindowSetupDepthStencil
  \/ ResizeWindowDestroyFramebuffers \/ ResizeWindowSetupFramebuffers
  \/ ResizeWindowDestroyCommandBuffers \/ ResizeWindowCreateCommandBuffers
  \/ ResizeWindowBuildCommandBuffers \/ ResizeWindowWaitIdle2
  \/ ResizeWindowViewChanged
  \/ ResizeWindowLoopPollZero \/ ResizeWindowLoopPollNonZero
  \/ OnDestroyCommandBuffers \/ OnDestroyRenderPass \/ OnDestroyFramebuffers
  \/ OnDestroyDepthStencil \/ OnDestroyCommandPool \/ OnDestroySyncObjects
  \/ OnDestroyDevice

FairSpec ==
  /\ Spec
  /\ WF_vars(ProgramStep)
  /\ SF_vars(ResizeWindowLoopPollNonZero)

TypeOK ==
  /\ physicalDevice \in {"none", "suitable", "unsuitable", "garbage"}
  /\ pc \in {"Start", "Init_Device", "PostInit", "Idle", "RF_Submit", "SF_Present",
             "SF_QueueWaitIdle"} \cup RWStates \cup Terminated \cup ODStates
  /\ cmdPool \in {"null", "live", "destroyed"}
  /\ device \in {"null", "live", "destroyed"}
  /\ ret \in {"none", "PrepareFrame", "SubmitFrame"}
  /\ isFramebufferResized \in BOOLEAN
  /\ queuePending \subseteq {"submit", "present"}
  /\ width \in WinWidths /\ height \in WinHeights

\* ------------------------------------------------------------- properties
\* The steps the specification lists for a Resizing transition, in order.
ResizeOrder ==
  <<"vkDeviceWaitIdle", "swapchain.Create", "DestroyDepthStencil",
    "SetupDepthStencil", "vkDestroyFramebuffer", "SetupFramebuffers",
    "DestroyCommandBuffers", "CreateCommandBuffers", "BuildCommandBuffers",
    "vkDeviceWaitIdle", "ViewChanged">>

\* OnPostInit has run, no ResizeWindow is in progress, OnDestroy has not run.
Settled ==
  /\ pc \notin {"Start", "Init_Device", "PostInit", "Destroyed"}
  /\ swapchain.live
  /\ ret = "none"

\* C1: in a RenderFrame call whose acquisition returned OutOfDate or
\* Suboptimal no queue submission is issued: a frame that has submitted is a
\* frame whose acquisition returned success.
C1_NoSubmitAfterStaleAcquire ==
  frame.submitted => frame.acq = VK_SUCCESS

\* C2: after OnPostInit and after every completed ResizeWindow the number of
\* framebuffers equals the number of swapchain images and of swapchain views,
\* whatever image count the creations returned.
C2_FramebufferCount ==
  Settled => /\ Len(framebuffers) = swapchain.images
             /\ swapchain.images = swapchain.views

C2_Witness ==
  /\ pc = "Idle"
  /\ resizeLog = ResizeOrder
  /\ swapchain.images # Len(waitFences)
  /\ Len(framebuffers) = swapchain.images
  /\ \A i \in 1..Len(framebuffers) : framebuffers[i] = "live"

\* C3: after OnPostInit and after every completed ResizeWindow the number of
\* draw command buffers equals the number of swapchain images, also when the
\* recreation changed the image count.
C3_CommandBufferCount ==
  Settled => Len(drawCmdBuffers) = swapchain.images

C3_Witness ==
  /\ Settled
  /\ pc = "RF_Submit"
  /\ resizeLog = ResizeOrder
  /\ swapchain.images # Len(waitFences)
  /\ Len(drawCmdBuffers) = swapchain.images
  /\ \A i \in 1..Len(drawCmdBuffers) : drawCmdBuffers[i] = "allocated"

\* C4: the swapchain is never recreated (swapchain.Create in ResizeWindow)
\* or destroyed (swapchain.Destroy in OnDestroy) while a submission or a
\* presentation issued since the last idle wait is pending: at both places no
\* queue operation has been issued after the last device-idle or queue-idle
\* wait.
C4_SwapchainIdleWhenReplaced ==
  pc \in {"RW_Create", "RW_DestroyDepthStencil", "Destroyed"}
     => queuePending = {}

C4_Witness ==
  /\ pc = "RW_DestroyDepthStencil"
  /\ frame.present = VK_SUBOPTIMAL_KHR
  /\ queuePending = {}

\* C5: whenever RenderFrame has returned (the loop is in Idle) nothing the
\* frame submitted or presented is pending: an idle wait followed its last
\* queue operation.
C5_FramesSerialized ==
  pc = "Idle" => queuePending = {}

C5_Witness ==
  /\ pc = "Idle"
  /\ frame.present = VK_SUCCESS
  /\ queuePending = {}

\* C6: every submission waits on presentComplete after an acquisition of the
\* same frame gave it a pending signal, every presentation waits on
\* renderComplete after the same frame's submission gave it one; no
\* submission or presentation waits on a semaphore without a pending signal.
C6_SemaphoreOrder ==
  /\ frame.submitted => frame.acq \in {VK_SUCCESS, VK_SUBOPTIMAL_KHR}
  /\ frame.submitWaitOk
  /\ frame.presentWaitOk

\* C7: every Resizing transition runs its steps in the listed order with
\* none skipped, recreates the swapchain at the polled size, and control
\* leaves ResizeWindow only after the ViewChanged hook.
C7_ResizeOrder ==
  /\ IsPrefix(resizeLog, ResizeOrder)
  /\ (ret = "none" /\ resizeLog # <<>>) => resizeLog = ResizeOrder
  /\ (ret # "none" /\ Len(resizeLog) >= 2) => createArgs = <<width, height>>

C7_Witness ==
  /\ pc = "Idle"
  /\ frame.present = VK_ERROR_OUT_OF_DATE_KHR
  /\ resizeLog = ResizeOrder

\* C8: while the polled size is zero in either dimension ResizeWindow has
\* done no device-idle wait, no swapchain recreation and no destruction, and
\* swapchain.Create is called only with a polled width and height that are
\* both nonzero.
C8_NoRecreationAtZeroSize ==
  /\ (ret # "none" /\ (width = 0 \/ height = 0)) => resizeLog = <<>>
  /\ pc \in {"RW_Poll", "RW_Loop", "RW_WaitEvents"} => resizeLog = <<>>
  /\ (ret # "none" /\ Len(resizeLog) >= 2)
        => (createArgs[1] # 0 /\ createArgs[2] # 0)

C8_Witness ==
  /\ zeroPolled
  /\ pc = "RW_DestroyDepthStencil"
  /\ createArgs = <<width, height>>
  /\ width # 0
  /\ height # 0

\* C9: every Resizing transition, entered from PrepareFrame or from
\* SubmitFrame, clears the framebuffer-resized flag: on entry of
\* ResizeWindow the flag is false.
C9_ResizeClearsFlag ==
  pc = "RW_Poll" => ~isFramebufferResized

\* C10: once OnResized has set the flag, a Resizing transition that clears
\* it eventually happens (unless the program stops: fatal status, OnDestroy,
\* a wait that never returns), and a frame never reaches the queue-idle wait
\* with the flag set.
C10_ResizeFlagConsumed ==
  /\ [](pc = "SF_QueueWaitIdle" => ~isFramebufferResized)
  /\ (isFramebufferResized
        ~> ((pc = "RW_Poll" /\ ~isFramebufferResized) \/ pc \in Terminated))

C10_Witness ==
  /\ pc = "RW_Poll"
  /\ ret = "SubmitFrame"
  /\ frame.present = VK_SUCCESS
  /\ ~isFramebufferResized

\* C11: in every state after initialization there is one wait fence per draw
\* command buffer, also after a ResizeWindow that changed the swapchain image
\* count.
C11_FencePerCommandBuffer ==
  Settled => Len(waitFences) = Len(drawCmdBuffers)

\* C12: a status of the acquisition or of the presentation other than
\* success, OutOfDate and Suboptimal is fatal: once a frame has got such a
\* status the program has stopped, with no later submission, presentation,
\* idle wait or Resizing transition.
C12_OtherStatusIsFatal ==
  (frame.acq = VK_ERROR_DEVICE_LOST \/ frame.present = VK_ERROR_DEVICE_LOST)
     => pc = "Fatal"

C15_NoDeviceStopsInit ==
  pc = "Init_Device" => physicalDevice = "suitable"

\* C16: the two semaphores and the submit-info template are created exactly
\* once, by CreateSemaphores in OnInit: from then on no semaphore is created
\* or (before OnDestroy) destroyed and the template's wait semaphore, wait
\* stage mask and signal semaphore stay as created; a frame writes only the
\* command-buffer pointer and count.
C16_SyncObjectsCreatedOnce ==
  semaphores.created # 0 =>
    /\ semaphores.created = 2
    /\ pc \notin ODStates =>
          /\ semaphores.presentComplete \in {"unsignaled", "signaled"}
          /\ semaphores.renderComplete \in {"unsignaled", "signaled"}
    /\ submitInfo.pWaitSemaphores = "presentComplete"
    /\ submitInfo.waitSemaphoreCount = 1
    /\ submitInfo.pWaitDstStageMask = "submitPipelineStages"
    /\ submitInfo.pSignalSemaphores = "renderComplete"
    /\ submitInfo.signalSemaphoreCount = 1

C16_Witness ==
  /\ pc = "SF_Present"
  /\ frame.submitted
  /\ resizeLog = ResizeOrder
  /\ semaphores.created = 2
  /\ submitInfo =
       [SubmitInfoTemplate EXCEPT !.commandBufferCount = 1,
                                  !.pCommandBuffers = currentBuffer]

\* C17: the render pass is created once, in OnPostInit, and stays that one
\* until OnDestroy: ResizeWindow neither destroys nor recreates it, and after
\* any number of resizes the live framebuffers were all created with that
\* same render pass.
C17_RenderPassImmutable ==
  Settled =>
    /\ renderPass = [handle |-> 1, state |-> "live"]
    /\ framebufferInfo.renderPass = renderPass.handle

C17_Witness ==
  /\ pc = "Idle"
  /\ resizeLog = ResizeOrder
  /\ frame.present = VK_SUBOPTIMAL_KHR
  /\ renderPass = [handle |-> 1, state |-> "live"]
  /\ framebufferInfo.renderPass = 1
  /\ \A i \in 1..Len(framebuffers) : framebuffers[i] = "live"

\* C18: every Resizing transition completes, ResizeWindow returns to its
\* caller, provided the window eventually reports a nonzero size; and while
\* the size read is zero ResizeWindow stays in its wait loop and has
\* recreated nothing.
C18_ResizeCompletes ==
  /\ (ret # "none") ~> (ret = "none")
  /\ [](pc \in {"RW_Loop", "RW_WaitEvents"} /\ SizeIsZero(width, height)
          => resizeLog = <<>>)

\* C19: at every queue submission and every presentation the current image
\* index is smaller than the number of draw command buffers and than the
\* number of swapchain images, also in a frame whose Resizing changed the
\* image count or whose acquisition returned no index.
C19_IndexInRange ==
  pc \in {"RF_Submit", "SF_Present"} =>
    /\ currentBuffer < Len(drawCmdBuffers)
    /\ currentBuffer < swapchain.images

\* C20: every image index passed to QueuePresent was returned by an
\* acquisition on the swapchain that is live at the presentation and has not
\* been presented since: no presentation uses an index acquired before the
\* last swapchain recreation or an index no acquisition returned.
C20_PresentAcquiredImage ==
  pc = "SF_Present" => currentBuffer \in swapchain.acquired


\* Every handle of the sequence is in state st.
AllIn(seq, st) == \A i \in 1..Len(seq) : seq[i] = st

\* C21: over initialization, frames, resizes and a final OnDestroy every
\* framebuffer, depth/stencil object, draw command buffer, fence and
\* semaphore that was created is destroyed exactly once. No use of a
\* destroyed handle: the command buffer a frame submits is an allocated one,
\* and while a frame is in flight the objects it uses exist. No double
\* destroy: each destroying statement of ResizeWindow and OnDestroy finds
\* its objects alive. No leak: each creating statement of ResizeWindow finds
\* the objects it replaces destroyed, and nothing is alive when OnDestroy
\* has returned. Order: the command pool is destroyed only with its command
\* buffers freed, the device only with every object created from it
\* destroyed.
C21_DestroyedExactlyOnce ==
  /\ frame.submitted => frame.cmdBuffer = "allocated"
  /\ pc \in {"RF_Submit", "SF_Present"} =>
        /\ AllIn(framebuffers, "live")
        /\ depthStencil.state = "live"
        /\ semaphores.presentComplete \in {"unsignaled", "signaled"}
        /\ semaphores.renderComplete \in {"unsignaled", "signaled"}
        /\ cmdPool = "live" /\ device = "live"
  /\ pc \in {"RW_DestroyDepthStencil", "OD_DestroyDepthStencil"} =>
        depthStencil.state = "live"
  /\ pc \in {"RW_DestroyFramebuffers", "OD_DestroyFramebuffers"} =>
        AllIn(framebuffers, "live")
  /\ pc \in {"RW_DestroyCommandBuffers", "OD_DestroyCommandBuffers"} =>
        AllIn(drawCmdBuffers, "allocated") /\ cmdPool = "live"
  /\ pc = "OD_DestroySyncObjects" =>
        /\ AllIn(waitFences, "signaled")
        /\ semaphores.presentComplete \in {"unsignaled", "signaled"}
        /\ semaphores.renderComplete \in {"unsignaled", "signaled"}
  /\ pc = "RW_SetupDepthStencil" => depthStencil.state = "destroyed"
  /\ pc = "RW_SetupFramebuffers" => AllIn(framebuffers, "destroyed")
  /\ pc = "RW_CreateCommandBuffers" =>
        AllIn(drawCmdBuffers, "freed") /\ cmdPool = "live"
  /\ cmdPool = "destroyed" => AllIn(drawCmdBuffers, "freed")
  /\ device = "destroyed" =>
        /\ ~swapchain.live
        /\ AllIn(drawCmdBuffers, "freed")
        /\ AllIn(framebuffers, "destroyed")
        /\ AllIn(waitFences, "destroyed")
        /\ depthStencil.state = "destroyed"
        /\ renderPass.state = "destroyed"
        /\ cmdPool = "destroyed"
        /\ semaphores.presentComplete = "destroyed"
        /\ semaphores.renderComplete = "destroyed"
  /\ pc = "Destroyed" => device = "destroyed"

=============================================================================
